---- MODULE Spec2Model ----
(***************************************************************************)
(* Stage-option generators of internal/distro/rhel86/stage_options.go.     *)
(*                                                                         *)
(* Every generator is a function from its arguments to an option record.   *)
(* One action per generator draws the arguments from bounded sets, runs    *)
(* the generator as the code runs it and records the invocation.  A        *)
(* behaviour invokes one generator; usersFirstBootOptions follows          *)
(* userStageOptions, whose record it is given, and it and                  *)
(* systemdStageOptions may be invoked again on the same input.             *)
(*   fn   - the generator invoked last ("none" before the first call)      *)
(*   args - its arguments                                                  *)
(*   ret  - what it produced: [kind |-> "ok", ...] for a returned record,  *)
(*          [kind |-> "error"] for a returned error (and a nil record),    *)
(*          [kind |-> "panic", msg |-> ...] for a fatal abort              *)
(* Go strings that the code takes apart, compares or concatenates are      *)
(* sequences of byte values; strings that are only passed through are      *)
(* TLA+ strings.  A Go pointer or an absent value is None (<<>>) or        *)
(* Some(v) (<<v>>).  Go indices are 0-based, sequences here 1-based.       *)
(***************************************************************************)
EXTENDS Integers, Sequences, FiniteSets, TLC

VARIABLES fn, args, ret, heap, baseline, records

vars == <<fn, args, ret, heap, baseline, records>>

None == <<>>
Some(v) == <<v>>

Ok(value) == [kind |-> "ok", value |-> value]
Panic(msg) == [kind |-> "panic", msg |-> msg]
Error(err) == [kind |-> "error", err |-> err]

Min(a, b) == IF a < b THEN a ELSE b

(***************************************************************************)
(* Byte strings                                                            *)
(***************************************************************************)

\* Go's < on strings: bytewise lexicographic order.
StrLess(a, b) ==
    \E i \in 1..(Min(Len(a), Len(b)) + 1) :
        /\ \A k \in 1..(i - 1) : a[k] = b[k]
        /\ \/ i > Len(a) /\ i <= Len(b)
           \/ i <= Len(a) /\ i <= Len(b) /\ a[i] < b[i]

IsPrefix(a, b) == Len(a) <= Len(b) /\ SubSeq(b, 1, Len(a)) = a

RECURSIVE StripTrailingSlashes(_)
StripTrailingSlashes(path) ==
    IF Len(path) > 0 /\ path[Len(path)] = 47
    THEN StripTrailingSlashes(SubSeq(path, 1, Len(path) - 1))
    ELSE path

\* The largest index holding a path separator, 0 when there is none.
LastSlash(path) ==
    LET at == {i \in 1..Len(path) : path[i] = 47}
    IN IF at = {} THEN 0 ELSE CHOOSE i \in at : \A j \in at : j <= i

\* filepath.Base: the last element of the path, trailing separators removed
\* first; "." for the empty path and "/" for a path of separators only.
Base(path) ==
    IF path = <<>> THEN <<46>>
    ELSE LET p == StripTrailingSlashes(path)
             q == SubSeq(p, LastSlash(p) + 1, Len(p))
         IN IF q = <<>> THEN <<47>> ELSE q

\* "root"
RootName == <<114, 111, 111, 116>>

(***************************************************************************)
(* Partition tables (the input of copyFSTreeOptions and                    *)
(* grub2InstStageOptions)                                                  *)
(***************************************************************************)

MaxParts == 2

\* "/", "/boot", "/boot/efi", "/efi"
MountRoot == <<47>>
MountBoot == <<47, 98, 111, 111, 116>>
MountBootEfi == <<47, 98, 111, 111, 116, 47, 101, 102, 105>>
MountEfi == <<47, 101, 102, 105>>

Mountpoints == {MountRoot, MountBoot, MountBootEfi, MountEfi}

\* The closed set of filesystem types and one type outside it.
FSTypes == {"xfs", "vfat", "ext4", "btrfs", "zfs"}

Filesystems == [Type : FSTypes, Mountpoint : Mountpoints]

PartSizes == {1, 2}

\* What the caller chooses per partition; the layout planner places the
\* partitions one after the other, so that they do not overlap.
PartShapes == [Size : PartSizes, Filesystem : {None} \cup {Some(f) : f \in Filesystems}]

RECURSIVE LayOut(_, _)
LayOut(shapes, start) ==
    IF shapes = <<>> THEN <<>>
    ELSE <<[Start |-> start, Size |-> Head(shapes).Size,
            Filesystem |-> Head(shapes).Filesystem]>>
         \o LayOut(Tail(shapes), start + Head(shapes).Size)

PartitionTable(label, shapes) == [Type |-> label, Partitions |-> LayOut(shapes, 1)]

(***************************************************************************)
(* copyFSTreeOptions                                                       *)
(***************************************************************************)

MountType(fstype) ==
    CASE fstype = "xfs" -> "org.osbuild.xfs"
      [] fstype = "vfat" -> "org.osbuild.fat"
      [] fstype = "ext4" -> "org.osbuild.ext4"
      [] fstype = "btrfs" -> "org.osbuild.btrfs"

KnownFSType(fstype) == fstype \in {"xfs", "vfat", "ext4", "btrfs"}

DeviceName(mountpoint) ==
    LET name == Base(mountpoint)
    IN IF name = <<47>> THEN RootName ELSE name

NewLoopbackDevice(filename, p) ==
    [Type |-> "org.osbuild.loopback",
     Options |-> [Filename |-> filename, Start |-> p.Start, Size |-> p.Size]]

NewMount(p) ==
    LET name == DeviceName(p.Filesystem[1].Mountpoint)
    IN [Name |-> name, Type |-> MountType(p.Filesystem[1].Type),
        Source |-> name, Target |-> p.Filesystem[1].Mountpoint]

\* A sort keyed by the mount's name instead of its target.
MountLessByName(a, b) == StrLess(a.Name, b.Name)

\* The mounts[i].Target < mounts[j].Target of the sort.
MountLess(a, b) == StrLess(a.Target, b.Target)

\* sort.Slice on a slice of fewer than 12 elements is an insertion sort:
\* each element moves left past the elements it is less than.
RECURSIVE Insert(_, _)
Insert(sorted, m) ==
    IF sorted # <<>> /\ MountLess(m, sorted[Len(sorted)])
    THEN Insert(SubSeq(sorted, 1, Len(sorted) - 1), m) \o <<sorted[Len(sorted)]>>
    ELSE sorted \o <<m>>

RECURSIVE SortMounts(_)
SortMounts(mounts) ==
    IF mounts = <<>> THEN <<>>
    ELSE Insert(SortMounts(SubSeq(mounts, 1, Len(mounts) - 1)), mounts[Len(mounts)])

\* The loop over pt.Partitions: the devices map and the mounts in table
\* order, or unknown |-> TRUE at the first filesystem type outside the set.
RECURSIVE CopyLoop(_, _, _)
CopyLoop(parts, filename, acc) ==
    IF parts = <<>> THEN acc
    ELSE LET p == Head(parts)
         IN IF p.Filesystem = None
            THEN CopyLoop(Tail(parts), filename, acc)
            ELSE IF ~KnownFSType(p.Filesystem[1].Type)
            THEN [acc EXCEPT !.unknown = TRUE]
            ELSE LET name == DeviceName(p.Filesystem[1].Mountpoint)
                     dev == NewLoopbackDevice(filename, p)
                 IN CopyLoop(Tail(parts), filename,
                        [acc EXCEPT
                           !.devices = [n \in DOMAIN acc.devices \cup {name} |->
                                           IF n = name THEN dev ELSE acc.devices[n]],
                           !.mounts = acc.mounts \o <<NewMount(p)>>])

copyFSTreeOptions(inputName, pt, device) ==
    IF device.Type # "org.osbuild.loopback"
    THEN Panic("copyStageOptions: failed to convert device options to loopback options")
    ELSE LET r == CopyLoop(pt.Partitions, device.Options.Filename,
                           [devices |-> <<>>, mounts |-> <<>>, unknown |-> FALSE])
         IN IF r.unknown THEN Panic("unknown fs type")
            ELSE Ok([options |-> [Paths |-> <<[From |-> <<"input://", inputName, "/">>,
                                              To |-> "mount://root/"]>>],
                     devices |-> r.devices,
                     mounts |-> SortMounts(r.mounts)])

\* The backing device: the loopback device of the image file, or a device of
\* another kind.
BackingDevices ==
    {[Type |-> "org.osbuild.loopback", Options |-> [Filename |-> "disk.img"]],
     [Type |-> "org.osbuild.lvm2.lv", Options |-> [Volume |-> "root"]]}

CopyFSTreeOptions ==
    /\ fn = "none"
    /\ \E n \in 0..MaxParts, device \in BackingDevices :
      \E shapes \in [1..n -> PartShapes] :
        LET pt == PartitionTable("gpt", shapes)
        IN /\ fn' = "copyFSTreeOptions"
           /\ args' = [inputName |-> "root-tree", pt |-> pt, device |-> device]
           /\ ret' = copyFSTreeOptions("root-tree", pt, device)
        /\ UNCHANGED <<heap, baseline, records>>

(***************************************************************************)
(* grub2StageOptions                                                       *)
(***************************************************************************)

\* Filesystem identifiers: a UUID in canonical form, the same UUID in upper
\* case, a second UUID, and a FAT volume id, which is no UUID.
RootUUID == "6264d520-3fb9-423f-8ab8-7a0a8e3d3562"
RootUUIDUpper == "6264D520-3FB9-423F-8AB8-7A0A8E3D3562"
BootUUID == "0194fdc2-fa2f-4cc0-81d3-ff12045b73c8"
FATVolumeID == "7B77-95E7"

\* uuid.Parse: the UUID value (printed in lower case) or an error.
ParseUUID(s) ==
    CASE s = RootUUID -> [ok |-> TRUE, uuid |-> RootUUID]
      [] s = RootUUIDUpper -> [ok |-> TRUE, uuid |-> RootUUID]
      [] s = BootUUID -> [ok |-> TRUE, uuid |-> BootUUID]
      [] OTHER -> [ok |-> FALSE]

\* "ffffffffffffffffffffffffffffffff-"
SavedEntryPrefix == [i \in 1..32 |-> 102] \o <<45>>

\* KernelOptions and SavedEntry once the kernel customization is applied.
ApplyKernel(stageOptions, kernel, kernelVer) ==
    IF kernel = None THEN stageOptions
    ELSE [stageOptions EXCEPT
            !.KernelOptions = IF kernel[1].Append # <<>>
                              THEN @ \o <<32>> \o kernel[1].Append
                              ELSE @,
            !.SavedEntry = SavedEntryPrefix \o kernelVer]

\* The UEFI block of the record.
ApplyUEFI(stageOptions, uefi, vendor, install) ==
    IF uefi
    THEN [stageOptions EXCEPT !.UEFI = Some([Vendor |-> vendor, Install |-> install])]
    ELSE stageOptions

\* The "if !uefi" assignment of the legacy platform.
ApplyLegacy(stageOptions, uefi, legacy) ==
    IF ~uefi THEN [stageOptions EXCEPT !.Legacy = legacy] ELSE stageOptions

\* The function past its check of rootPartition, which is not nil here.
grub2Options(rootPartition, bootPartition, kernelOptions, kernel, kernelVer, uefi, legacy, vendor, install) ==
    IF rootPartition[1].Filesystem = None
    THEN Panic("runtime error: invalid memory address or nil pointer dereference")
    ELSE IF ~ParseUUID(rootPartition[1].Filesystem[1].UUID).ok
    THEN Panic("uuid: Parse: invalid UUID")
    ELSE IF bootPartition # None /\ bootPartition[1].Filesystem = None
    THEN Panic("runtime error: invalid memory address or nil pointer dereference")
    ELSE IF bootPartition # None /\ ~ParseUUID(bootPartition[1].Filesystem[1].UUID).ok
    THEN Panic("uuid: Parse: invalid UUID")
    ELSE LET stageOptions ==
                [RootFilesystemUUID |-> ParseUUID(rootPartition[1].Filesystem[1].UUID).uuid,
                 BootFilesystemUUID |->
                     IF bootPartition # None
                     THEN Some(ParseUUID(bootPartition[1].Filesystem[1].UUID).uuid)
                     ELSE None,
                 KernelOptions |-> kernelOptions,
                 Legacy |-> legacy,
                 UEFI |-> None,
                 SavedEntry |-> <<>>]
         IN Ok(ApplyKernel(ApplyLegacy(ApplyUEFI(stageOptions, uefi, vendor, install),
                                       uefi, legacy),
                           kernel, kernelVer))

\* A function that returns a record without the root filesystem for a nil
\* rootPartition.
grub2StageOptionsNilRootSkipped(rootPartition, bootPartition, kernelOptions, kernel, kernelVer, uefi, legacy, vendor, install) ==
    IF rootPartition = None
    THEN Ok(ApplyKernel(ApplyLegacy(ApplyUEFI([RootFilesystemUUID |-> "",
                                               BootFilesystemUUID |-> None,
                                               KernelOptions |-> kernelOptions,
                                               Legacy |-> legacy,
                                               UEFI |-> None,
                                               SavedEntry |-> <<>>],
                                              uefi, vendor, install),
                                    uefi, legacy),
                        kernel, kernelVer))
    ELSE grub2Options(rootPartition, bootPartition, kernelOptions, kernel, kernelVer, uefi, legacy, vendor, install)

grub2StageOptions(rootPartition, bootPartition, kernelOptions, kernel, kernelVer, uefi, legacy, vendor, install) ==
    IF rootPartition = None
    THEN Panic("root partition must be defined for grub2 stage, this is a programming error")
    ELSE grub2Options(rootPartition, bootPartition, kernelOptions, kernel, kernelVer, uefi, legacy, vendor, install)

BootPartitionArgs ==
    {None} \cup {Some([Filesystem |-> Some([UUID |-> u])]) : u \in {BootUUID, FATVolumeID}}

RootPartitionArgs ==
    {None, Some([Filesystem |-> None])}
    \cup {Some([Filesystem |-> Some([UUID |-> u])]) : u \in {RootUUID, RootUUIDUpper, FATVolumeID}}

\* "ro", "debug", "5.14"
KernelOptionStrings == {<<>>, <<114, 111>>}
AppendStrings == {<<>>, <<100, 101, 98, 117, 103>>}
KernelVersions == {<<>>, <<53, 46, 49, 52>>}

KernelCustomizations == {None} \cup {Some([Append |-> a]) : a \in AppendStrings}

LegacyPlatforms == {"", "i386-pc"}

Grub2StageOptions ==
    /\ fn = "none"
    /\ \E rootPartition \in RootPartitionArgs, bootPartition \in BootPartitionArgs,
          kernelOptions \in KernelOptionStrings, kernel \in KernelCustomizations,
          kernelVer \in KernelVersions, uefi \in BOOLEAN, legacy \in LegacyPlatforms,
          install \in BOOLEAN :
        /\ fn' = "grub2StageOptions"
        /\ args' = [rootPartition |-> rootPartition, bootPartition |-> bootPartition,
                    kernelOptions |-> kernelOptions, kernel |-> kernel,
                    kernelVer |-> kernelVer, uefi |-> uefi, legacy |-> legacy,
                    vendor |-> "redhat", install |-> install]
        /\ ret' = grub2StageOptions(rootPartition, bootPartition, kernelOptions, kernel,
                                    kernelVer, uefi, legacy, "redhat", install)
        /\ UNCHANGED <<heap, baseline, records>>

(***************************************************************************)
(* userStageOptions and usersFirstBootOptions                              *)
(***************************************************************************)

MaxUsers == 2

\* crypt.PasswordIsCrypted: the password starts with the marker of a crypt(3)
\* hash, "$6$", "$5$" or "$2b$".
PasswordIsCrypted(password) ==
    \/ IsPrefix(<<36, 54, 36>>, password)
    \/ IsPrefix(<<36, 53, 36>>, password)
    \/ IsPrefix(<<36, 50, 98, 36>>, password)

\* crypt.CryptSHA512: "$6$" <salt> "$" <digest>, or an error for a phrase
\* crypt(3) cannot take (one holding a NUL byte).  The digest stands for the
\* one-way function: each byte of the phrase moved by one.
CryptSHA512(phrase) ==
    IF \E i \in 1..Len(phrase) : phrase[i] = 0
    THEN [ok |-> FALSE]
    ELSE [ok |-> TRUE,
          hash |-> <<36, 54, 36, 115, 36>> \o [i \in 1..Len(phrase) |-> (phrase[i] + 1) % 256]]

\* A hash is computed for a password that is set and in crypted form.
NeedsHashWhenCrypted(c) == c.Password # None /\ PasswordIsCrypted(c.Password[1])

\* The condition under which the password of user c is hashed.
NeedsHash(c) == c.Password # None /\ ~PasswordIsCrypted(c.Password[1])

\* The record built for user c, whose password is already final.
UsersStageOptionsUser(c) ==
    [Groups |-> c.Groups, Description |-> c.Description, Home |-> c.Home,
     Shell |-> c.Shell, Password |-> c.Password, Key |-> c.Key,
     UID |-> c.UID, GID |-> c.GID]

\* The loop over the users: options.Users, keyed by name, or the first error.
RECURSIVE UserLoop(_, _)
UserLoop(users, Users) ==
    IF users = <<>> THEN Ok([Users |-> Users])
    ELSE LET c == Head(users)
         IN IF NeedsHash(c) /\ ~CryptSHA512(c.Password[1]).ok
            THEN Error("crypt")
            ELSE LET c2 == IF NeedsHash(c)
                           THEN [c EXCEPT !.Password = Some(CryptSHA512(c.Password[1]).hash)]
                           ELSE c
                 IN UserLoop(Tail(users),
                        [n \in DOMAIN Users \cup {c.Name} |->
                            IF n = c.Name THEN UsersStageOptionsUser(c2) ELSE Users[n]])

userStageOptions(users) == UserLoop(users, <<>>)

\* "pw", "p\0" (which cannot be hashed), "$6$s$h"
PlainPassword == <<112, 119>>
BadPassword == <<112, 0>>
HashedPassword == <<36, 54, 36, 115, 36, 104>>

UserNames == {"alice", "bob"}

UserCustomizations ==
    [Name : UserNames, Description : {None}, Home : {None}, Shell : {None},
     Groups : {<<"wheel">>}, UID : {None}, GID : {None},
     Password : {None, Some(PlainPassword), Some(BadPassword), Some(HashedPassword)},
     Key : {None, Some("ssh-ed25519 AAAA")}]

UserStageOptions ==
    /\ fn = "none"
    /\ \E n \in 0..MaxUsers :
         \E users \in [1..n -> UserCustomizations] :
            /\ fn' = "userStageOptions"
            /\ args' = [users |-> users]
            /\ ret' = userStageOptions(users)
            /\ UNCHANGED <<heap, baseline, records>>

\* The three commands for one user with a key.
KeyCommands(name, user) ==
    LET sshdir == <<"/var", "home", name, ".ssh">>
    IN <<[cmd |-> "mkdir -p", dir |-> sshdir],
         [cmd |-> "sh -c echo >>", key |-> user.Key[1], file |-> sshdir \o <<"authorized_keys">>],
         [cmd |-> "chown -Rc", owner |-> name, group |-> name, dir |-> sshdir]>>

RECURSIVE FirstBootLoop(_, _)
FirstBootLoop(Users, order) ==
    IF order = <<>> THEN <<>>
    ELSE (IF Users[Head(order)].Key # None
          THEN KeyCommands(Head(order), Users[Head(order)])
          ELSE <<>>)
         \o FirstBootLoop(Users, Tail(order))

\* order is the order in which the range over the map yields the names.
usersFirstBootOptions(usersStageOptions, order) ==
    Ok([Commands |-> FirstBootLoop(usersStageOptions.Users, order)
                     \o <<[cmd |-> "restorecon -rvF", dir |-> <<"/var", "home">>]>>,
        WaitForNetwork |-> FALSE])

\* The orders a range over a Go map may take: any order of its keys.
MapOrders(m) ==
    {o \in [1..Cardinality(DOMAIN m) -> DOMAIN m] :
        \A i, j \in DOMAIN o : i # j => o[i] # o[j]}

\* usersFirstBootOptions is given the record userStageOptions returned; it
\* may be invoked again on the same record.
UsersFirstBootOptions ==
    /\ \/ fn = "userStageOptions" /\ ret.kind = "ok"
       \/ fn = "usersFirstBootOptions"
    /\ LET usersStageOptions == IF fn = "userStageOptions" THEN ret.value
                                ELSE args.usersStageOptions
       IN \E order \in MapOrders(usersStageOptions.Users) :
            /\ fn' = "usersFirstBootOptions"
            /\ args' = [usersStageOptions |-> usersStageOptions]
            /\ ret' = usersFirstBootOptions(usersStageOptions, order)
            /\ UNCHANGED <<heap, baseline, records>>

(***************************************************************************)
(* systemdStageOptions                                                     *)
(*                                                                         *)
(* A Go slice is a view [arr, len, cap] of a backing array; heap[arr] is   *)
(* the array, Len(heap[arr]) its capacity.  The nil slice has arr = 0.     *)
(* baseline holds the image type's service lists, which every invocation   *)
(* for that image type is given; records holds the record each invocation  *)
(* returned, with the lists and the blueprint it was given.                *)
(***************************************************************************)

MaxSpare == 1
MaxCalls == 2

NilSlice == [arr |-> 0, len |-> 0, cap |-> 0]

\* The elements a slice shows.
Contents(h, slice) == IF slice.arr = 0 THEN <<>> ELSE SubSeq(h[slice.arr], 1, slice.len)

\* append(slice, elems...): in place when the capacity suffices (nothing to
\* do for no elements), else into a new array of twice the capacity, or of
\* the needed size when that is more.
append(h, slice, elems) ==
    LET n == slice.len + Len(elems)
    IN IF n <= slice.cap
       THEN [heap |-> IF elems = <<>> THEN h
                      ELSE [h EXCEPT ![slice.arr] =
                               [i \in 1..slice.cap |->
                                   IF i > slice.len /\ i <= n THEN elems[i - slice.len]
                                   ELSE @[i]]],
             slice |-> [slice EXCEPT !.len = n]]
       ELSE LET newcap == IF n > 2 * slice.cap THEN n ELSE 2 * slice.cap
            IN [heap |-> h \o <<[i \in 1..newcap |->
                                   IF i <= slice.len THEN h[slice.arr][i]
                                   ELSE IF i <= n THEN elems[i - slice.len]
                                   ELSE ""]>>,
                slice |-> [arr |-> Len(h) + 1, len |-> n, cap |-> newcap]]

\* The heap after the call and the record returned.
systemdStageOptions(h, enabledServices, disabledServices, s, target) ==
    IF s # None
    THEN LET e == append(h, enabledServices, s[1].Enabled)
             d == append(e.heap, disabledServices, s[1].Disabled)
         IN [heap |-> d.heap,
             ret |-> [EnabledServices |-> e.slice, DisabledServices |-> d.slice,
                      DefaultTarget |-> target]]
    ELSE [heap |-> h,
          ret |-> [EnabledServices |-> enabledServices,
                   DisabledServices |-> disabledServices, DefaultTarget |-> target]]

BaselineLists == {<<>>, <<"sshd">>}

\* A slice of the given elements with spare capacity (zero values).
MakeSlice(h, elems, spare) ==
    IF Len(elems) + spare = 0
    THEN [heap |-> h, slice |-> NilSlice]
    ELSE [heap |-> h \o <<elems \o [i \in 1..spare |-> ""]>>,
          slice |-> [arr |-> Len(h) + 1, len |-> Len(elems), cap |-> Len(elems) + spare]]

\* The image type's service lists, as the first invocation finds them.
Baselines ==
    {LET e == MakeSlice(<<>>, en, se)
         d == MakeSlice(e.heap, dis, sd)
     IN [heap |-> d.heap, baseline |-> [enabled |-> e.slice, disabled |-> d.slice]] :
     en \in BaselineLists, dis \in BaselineLists, se \in 0..MaxSpare, sd \in 0..MaxSpare}

ServicesCustomizations ==
    {None} \cup {Some([Enabled |-> en, Disabled |-> dis]) :
                    en \in {<<>>, <<"chronyd">>, <<"httpd">>}, dis \in {<<>>, <<"kdump">>}}

SystemdStageOptions ==
    /\ fn \in {"none", "systemdStageOptions"}
    /\ Len(records) < MaxCalls
    /\ \E s \in ServicesCustomizations,
          b \in IF fn = "none" THEN Baselines ELSE {[heap |-> heap, baseline |-> baseline]} :
         LET r == systemdStageOptions(b.heap, b.baseline.enabled, b.baseline.disabled, s,
                                      "multi-user.target")
         IN /\ fn' = "systemdStageOptions"
            /\ args' = [enabledServices |-> b.baseline.enabled,
                        disabledServices |-> b.baseline.disabled, s |-> s,
                        target |-> "multi-user.target"]
            /\ ret' = Ok(r.ret)
            /\ heap' = r.heap
            /\ baseline' = b.baseline
            /\ records' = Append(records,
                                  [enabledServices |-> Contents(b.heap, b.baseline.enabled),
                                   disabledServices |-> Contents(b.heap, b.baseline.disabled),
                                   s |-> s, ret |-> r.ret])

(***************************************************************************)
(* grub2InstStageOptions                                                   *)
(***************************************************************************)

\* PartitionTable.BootPartitionIndex: the index (from 0) of the first
\* partition whose filesystem is mounted at "/boot" or "/", -1 without one.
BootPartitionIndex(pt) ==
    LET boot == {i \in 1..Len(pt.Partitions) :
                    /\ pt.Partitions[i].Filesystem # None
                    /\ pt.Partitions[i].Filesystem[1].Mountpoint \in {MountBoot, MountRoot}}
    IN IF boot = {} THEN -1
       ELSE (CHOOSE i \in boot : \A j \in boot : i <= j) - 1

\* A prefix that takes the boot files to live under the root filesystem.
PrefixPathUnderRoot(bootPart) == "/boot/grub2"

PrefixPath(bootPart) ==
    IF bootPart.Filesystem[1].Mountpoint = MountBoot THEN "/grub2" ELSE "/boot/grub2"

grub2InstStageOptions(filename, pt, platform) ==
    LET bootPartIndex == BootPartitionIndex(pt)
    IN IF bootPartIndex = -1
       THEN Panic("failed to find boot or root partition for grub2.inst stage")
       ELSE LET bootPart == pt.Partitions[bootPartIndex + 1]
            IN Ok([Filename |-> filename,
                   Platform |-> platform,
                   Location |-> pt.Partitions[1].Start,
                   Core |-> [Type |-> "mkimage", PartLabel |-> pt.Type,
                             Filesystem |-> bootPart.Filesystem[1].Type],
                   Prefix |-> [Type |-> "partition", PartLabel |-> pt.Type,
                               Number |-> bootPartIndex, Path |-> PrefixPath(bootPart)]])

PartitionLabels == {"gpt", "dos"}

Grub2InstStageOptions ==
    /\ fn = "none"
    /\ \E n \in 0..MaxParts, label \in PartitionLabels :
         \E shapes \in [1..n -> PartShapes] :
            LET pt == PartitionTable(label, shapes)
            IN /\ fn' = "grub2InstStageOptions"
               /\ args' = [filename |-> "disk.img", pt |-> pt, platform |-> "i386-pc"]
               /\ ret' = grub2InstStageOptions("disk.img", pt, "i386-pc")
               /\ UNCHANGED <<heap, baseline, records>>

(***************************************************************************)
(* bootISOMonoStageOptions and grubISOStageOptions                         *)
(***************************************************************************)

\* distro.X86_64ArchName, distro.Aarch64ArchName
X86_64ArchName == "x86_64"
Aarch64ArchName == "aarch64"

\* osbuild.BCJOption: the filter for the architecture, "" without one.
BCJOption(arch) ==
    CASE arch = X86_64ArchName -> "x86"
      [] arch = Aarch64ArchName -> "arm"
      [] OTHER -> ""

\* The EFI architectures of the installer ISO; None is "unsupported".
BootISOMonoArchitectures(arch) ==
    IF arch = X86_64ArchName THEN Some(<<"IA32", "X64">>)
    ELSE IF arch = Aarch64ArchName THEN Some(<<"AA64">>)
    ELSE None

bootISOMonoStageOptions(kernelVer, arch, vendor, product, osVersion, isolabel) ==
    IF BootISOMonoArchitectures(arch) = None
    THEN Panic("unsupported architecture")
    ELSE Ok([Product |-> [Name |-> product, Version |-> osVersion],
             ISOLabel |-> isolabel,
             Kernel |-> kernelVer,
             KernelOpts |-> <<"inst.ks=hd:LABEL=", isolabel, ":", "/osbuild.ks">>,
             EFI |-> [Architectures |-> BootISOMonoArchitectures(arch)[1], Vendor |-> vendor],
             ISOLinux |-> [Enabled |-> (arch = X86_64ArchName), Debug |-> FALSE],
             Templates |-> "80-rhel",
             RootFS |-> [Size |-> 9216,
                         Compression |-> [Method |-> "xz",
                                          Options |-> [BCJ |-> BCJOption(arch)]]]])

\* A mapping that takes every architecture but x86_64 for aarch64.
GrubISOArchitecturesNoPanic(arch) ==
    IF arch = "x86_64" THEN Some(<<"IA32", "X64">>) ELSE Some(<<"AA64">>)

\* The EFI architectures of the live ISO; None is "unsupported".
GrubISOArchitectures(arch) ==
    IF arch = "x86_64" THEN Some(<<"IA32", "X64">>)
    ELSE IF arch = "aarch64" THEN Some(<<"AA64">>)
    ELSE None

grubISOStageOptions(installDevice, kernelVer, arch, vendor, product, osVersion, isolabel) ==
    IF GrubISOArchitectures(arch) = None
    THEN Panic("unsupported architecture")
    ELSE Ok([Product |-> [Name |-> product, Version |-> osVersion],
             ISOLabel |-> isolabel,
             Kernel |-> [Dir |-> "/images/pxeboot",
                         Opts |-> <<<<"rd.neednet=1">>, <<"console=tty0">>, <<"console=ttyS0">>,
                                    <<"systemd.log_target=console">>,
                                    <<"systemd.journald.forward_to_console=1">>,
                                    <<"edge.liveiso=", isolabel>>,
                                    <<"coreos.inst.install_dev=", installDevice>>,
                                    <<"coreos.inst.image_file=/run/media/iso/disk.img.xz">>,
                                    <<"coreos.inst.insecure">>>>],
             Architectures |-> GrubISOArchitectures(arch)[1],
             Vendor |-> vendor])

ArchNames == {"x86_64", "aarch64", "ppc64le", "s390x"}
Vendors == {"redhat", "centos"}
ISOLabels == {"RHEL-8-6-0-BaseOS-%s", "edge"}
InstallDevices == {"/dev/sda", "/dev/vda"}

BootISOMonoStageOptions ==
    /\ fn = "none"
    /\ \E kernelVer \in KernelVersions, arch \in ArchNames, vendor \in Vendors,
          isolabel \in ISOLabels :
         /\ fn' = "bootISOMonoStageOptions"
         /\ args' = [kernelVer |-> kernelVer, arch |-> arch, vendor |-> vendor,
                     product |-> "Red Hat Enterprise Linux", osVersion |-> "8.6",
                     isolabel |-> isolabel]
         /\ ret' = bootISOMonoStageOptions(kernelVer, arch, vendor,
                                           "Red Hat Enterprise Linux", "8.6", isolabel)
         /\ UNCHANGED <<heap, baseline, records>>

GrubISOStageOptions ==
    /\ fn = "none"
    /\ \E installDevice \in InstallDevices, kernelVer \in KernelVersions, arch \in ArchNames,
          vendor \in Vendors, isolabel \in ISOLabels :
         /\ fn' = "grubISOStageOptions"
         /\ args' = [installDevice |-> installDevice, kernelVer |-> kernelVer, arch |-> arch,
                     vendor |-> vendor, product |-> "Red Hat Enterprise Linux",
                     osVersion |-> "8.6", isolabel |-> isolabel]
         /\ ret' = grubISOStageOptions(installDevice, kernelVer, arch, vendor,
                                       "Red Hat Enterprise Linux", "8.6", isolabel)
         /\ UNCHANGED <<heap, baseline, records>>

(***************************************************************************)
(* dracutStageOptions                                                      *)
(***************************************************************************)

MaxModules == 2

\* The modules literal.
DracutBaseModules ==
    <<"bash", "systemd", "fips", "systemd-initrd", "modsign", "nss-softokn", "rdma",
      "rngd", "i18n", "convertfs", "network-manager", "network", "ifcfg", "url-lib",
      "drm", "plymouth", "prefixdevname", "prefixdevname-tools", "crypt", "dm",
      "dmsquash-live", "kernel-modules", "kernel-modules-extra",
      "kernel-network-modules", "livenet", "lvm", "mdraid", "multipath", "qemu",
      "qemu-net", "fcoe", "fcoe-uefi", "iscsi", "lunmask", "nfs", "resume",
      "rootfs-block", "terminfo", "udev-rules", "dracut-systemd", "pollcdrom",
      "usrmount", "base", "fs-lib", "img-lib", "shutdown", "uefi-lib">>

\* biosdevname for every architecture but aarch64.
NeedsBiosdevnameUnlessArm(arch) == arch # Aarch64ArchName

\* The condition under which "biosdevname" is appended.
NeedsBiosdevname(arch) == arch = X86_64ArchName

dracutStageOptions(kernelVer, arch, additionalModules) ==
    LET modules == IF NeedsBiosdevname(arch)
                   THEN DracutBaseModules \o <<"biosdevname">>
                   ELSE DracutBaseModules
    IN Ok([Kernel |-> <<kernelVer>>,
           Modules |-> modules \o additionalModules,
           Install |-> <<"/.buildstamp">>])

\* Modules a caller may add: two new ones, one the baseline holds already
\* and "biosdevname" itself.
AdditionalModuleNames == {"nvme", "zfs", "bash", "biosdevname"}

DracutStageOptions ==
    /\ fn = "none"
    /\ \E kernelVer \in KernelVersions, arch \in ArchNames, n \in 0..MaxModules :
         \E additionalModules \in [1..n -> AdditionalModuleNames] :
            /\ fn' = "dracutStageOptions"
            /\ args' = [kernelVer |-> kernelVer, arch |-> arch,
                        additionalModules |-> additionalModules]
            /\ ret' = dracutStageOptions(kernelVer, arch, additionalModules)
            /\ UNCHANGED <<heap, baseline, records>>

Init ==
    /\ fn = "none"
    /\ args = <<>>
    /\ ret = [kind |-> "none"]
    /\ heap = <<>>
    /\ baseline = [enabled |-> NilSlice, disabled |-> NilSlice]
    /\ records = <<>>

Next ==
    \/ CopyFSTreeOptions
    \/ Grub2StageOptions
    \/ UserStageOptions
    \/ UsersFirstBootOptions
    \/ SystemdStageOptions
    \/ Grub2InstStageOptions
    \/ BootISOMonoStageOptions
    \/ GrubISOStageOptions
    \/ DracutStageOptions

Spec == Init /\ [][Next]_vars

(***************************************************************************)
(* Claims about copyFSTreeOptions                                          *)
(***************************************************************************)

CopyReturned == fn = "copyFSTreeOptions" /\ ret.kind = "ok"

ProperPrefix(a, b) == a # b /\ IsPrefix(a, b)

\* C1: in the mount list copyFSTreeOptions returns, a mount whose target is
\* a proper prefix of another mount's target (so every ancestor directory:
\* "/" of "/boot", "/boot" of "/boot/efi") stands before that mount.
C1_ParentsMountedFirst ==
    CopyReturned =>
        LET mounts == ret.value.mounts
        IN \A i, j \in 1..Len(mounts) :
              ProperPrefix(mounts[i].Target, mounts[j].Target) => i < j

\* C1 witness: a table that lists "/boot/efi" before "/" came back with "/"
\* first.
C1_Witness ==
    /\ CopyReturned
    /\ \E i, j \in 1..Len(args.pt.Partitions) :
          /\ i < j
          /\ args.pt.Partitions[i].Filesystem # None
          /\ args.pt.Partitions[j].Filesystem # None
          /\ ProperPrefix(args.pt.Partitions[j].Filesystem[1].Mountpoint,
                          args.pt.Partitions[i].Filesystem[1].Mountpoint)
    /\ Len(ret.value.mounts) = 2
    /\ ret.value.mounts[1].Target = MountRoot
    /\ ret.value.mounts[2].Target = MountBootEfi

FSParts(pt) == {i \in 1..Len(pt.Partitions) : pt.Partitions[i].Filesystem # None}

DistinctMountpoints(pt) ==
    \A i, j \in FSParts(pt) :
        i # j => pt.Partitions[i].Filesystem[1].Mountpoint
                 # pt.Partitions[j].Filesystem[1].Mountpoint

\* C2: for a table of distinct mountpoints, copyFSTreeOptions returns as many
\* devices and as many mounts as there are partitions with a filesystem, and
\* for each such partition a mount on its mountpoint whose source names a
\* loopback device spanning exactly the partition's start and size.
C2_DeviceAndMountPerFilesystem ==
    (CopyReturned /\ DistinctMountpoints(args.pt)) =>
        LET pt == args.pt
            devices == ret.value.devices
            mounts == ret.value.mounts
        IN /\ Cardinality(DOMAIN devices) = Cardinality(FSParts(pt))
           /\ Len(mounts) = Cardinality(FSParts(pt))
           /\ \A i \in FSParts(pt) :
                 \E k \in 1..Len(mounts) :
                    /\ mounts[k].Target = pt.Partitions[i].Filesystem[1].Mountpoint
                    /\ mounts[k].Source \in DOMAIN devices
                    /\ devices[mounts[k].Source].Options.Start = pt.Partitions[i].Start
                    /\ devices[mounts[k].Source].Options.Size = pt.Partitions[i].Size


(***************************************************************************)
(* Claims about grub2StageOptions                                          *)
(***************************************************************************)

Grub2Returned == fn = "grub2StageOptions" /\ ret.kind = "ok"

\* C3: in the record grub2StageOptions returns, UEFI and legacy are mutually
\* exclusive: with uefi the record carries the UEFI vendor/install block and
\* no legacy platform identifier, without uefi it carries the legacy platform
\* identifier and no UEFI block.
C3_UEFIExcludesLegacy ==
    Grub2Returned =>
        /\ args.uefi =>
              /\ ret.value.UEFI = Some([Vendor |-> args.vendor, Install |-> args.install])
              /\ ret.value.Legacy = ""
        /\ ~args.uefi =>
              /\ ret.value.Legacy = args.legacy
              /\ ret.value.UEFI = None

\* C4: given a kernel version, the saved entry of the returned record is 32
\* 'f', a hyphen and the kernel version, with or without a kernel
\* customization; the kernel options are the base options, extended by a
\* space and the append string exactly when a non-empty one is supplied.
C4_SavedEntryForKernelVersion ==
    (Grub2Returned /\ args.kernelVer # <<>>) =>
        /\ ret.value.SavedEntry = [i \in 1..32 |-> 102] \o <<45>> \o args.kernelVer
        /\ ret.value.KernelOptions =
              IF args.kernel # None /\ args.kernel[1].Append # <<>>
              THEN args.kernelOptions \o <<32>> \o args.kernel[1].Append
              ELSE args.kernelOptions


\* The identifiers grub2StageOptions is given, when it reads them.
MalformedUUID ==
    /\ fn = "grub2StageOptions"
    /\ args.rootPartition # None
    /\ args.rootPartition[1].Filesystem # None
    /\ \/ ~ParseUUID(args.rootPartition[1].Filesystem[1].UUID).ok
       \/ /\ args.bootPartition # None
          /\ args.bootPartition[1].Filesystem # None
          /\ ~ParseUUID(args.bootPartition[1].Filesystem[1].UUID).ok

UnhashablePassword ==
    /\ fn = "userStageOptions"
    /\ \E i \in 1..Len(args.users) :
          /\ args.users[i].Password # None
          /\ ~PasswordIsCrypted(args.users[i].Password[1])
          /\ ~CryptSHA512(args.users[i].Password[1]).ok

\* C5: malformed caller-supplied data is a returned error, never a fatal
\* abort: grub2StageOptions with an unparsable root or boot filesystem UUID
\* returns an error, and userStageOptions with a password that cannot be
\* hashed returns an error and no record.
C5_MalformedInputIsReturnedError ==
    (MalformedUUID \/ UnhashablePassword) => (ret.kind = "error" /\ "value" \notin DOMAIN ret)

(***************************************************************************)
(* Claims about userStageOptions and usersFirstBootOptions                 *)
(***************************************************************************)

\* C6: a generator invoked again with the same arguments returns the same
\* record, the order of its lists included.
C6_Deterministic == [][(fn' = fn /\ args' = args) => ret' = ret]_vars

\* The users whose record is the one kept under their name: all of them when
\* the names differ, the last of each name otherwise.
KeptUsers(users) ==
    {i \in 1..Len(users) : \A j \in (i + 1)..Len(users) : users[j].Name # users[i].Name}

\* C10: userStageOptions returns an error and no record when a password
\* cannot be hashed; otherwise the record of every user holds the user's
\* password unchanged when it is in crypted form (or absent) and its hash,
\* not the password, when it is not; no returned record holds a password
\* that is not in crypted form.
C10_NoPlaintextPassword ==
    fn = "userStageOptions" =>
        IF UnhashablePassword
        THEN ret.kind = "error" /\ "value" \notin DOMAIN ret
        ELSE /\ ret.kind = "ok"
             /\ DOMAIN ret.value.Users = {args.users[i].Name : i \in 1..Len(args.users)}
             /\ \A i \in KeptUsers(args.users) :
                   LET given == args.users[i].Password
                       kept == ret.value.Users[args.users[i].Name].Password
                   IN /\ given = None => kept = None
                      /\ (given # None /\ PasswordIsCrypted(given[1])) => kept = given
                      /\ (given # None /\ ~PasswordIsCrypted(given[1])) =>
                            /\ kept = Some(CryptSHA512(given[1]).hash)
                            /\ kept # given
             /\ \A n \in DOMAIN ret.value.Users :
                   \/ ret.value.Users[n].Password = None
                   \/ PasswordIsCrypted(ret.value.Users[n].Password[1])

\* C10 witness: a record that holds one password passed through and one
\* password replaced by its hash.
C10_Witness ==
    /\ fn = "userStageOptions"
    /\ ret.kind = "ok"
    /\ \E i, j \in KeptUsers(args.users) :
          /\ args.users[i].Password = Some(HashedPassword)
          /\ ret.value.Users[args.users[i].Name].Password = Some(HashedPassword)
          /\ args.users[j].Password = Some(PlainPassword)
          /\ ret.value.Users[args.users[j].Name].Password
                = Some(CryptSHA512(PlainPassword).hash)


(***************************************************************************)
(* Claims about systemdStageOptions                                        *)
(***************************************************************************)

BlueprintEnabled(s) == IF s = None THEN <<>> ELSE s[1].Enabled
BlueprintDisabled(s) == IF s = None THEN <<>> ELSE s[1].Disabled

\* C7: every record systemdStageOptions returned holds the baseline services
\* it was given followed by the services of its own blueprint, and goes on
\* holding them whatever later invocations with the same baseline lists and
\* another blueprint do.
C7_RecordsKeepOwnServices ==
    \A k \in 1..Len(records) :
        /\ Contents(heap, records[k].ret.EnabledServices)
              = records[k].enabledServices \o BlueprintEnabled(records[k].s)
        /\ Contents(heap, records[k].ret.DisabledServices)
              = records[k].disabledServices \o BlueprintDisabled(records[k].s)

(***************************************************************************)
(* Claims about grub2InstStageOptions                                      *)
(***************************************************************************)

\* C8: grub2InstStageOptions aborts when the boot-index lookup finds no
\* partition; otherwise the prefix path is "/grub2" exactly when the
\* partition the lookup selects is mounted at "/boot" and "/boot/grub2" in
\* every other case, the prefix holds that partition's index in the table,
\* and the core image holds that partition's filesystem type.
C8_PrefixOfBootPartition ==
    fn = "grub2InstStageOptions" =>
        LET idx == BootPartitionIndex(args.pt)
        IN IF idx = -1
           THEN ret.kind = "panic"
           ELSE /\ ret.kind = "ok"
                /\ ret.value.Prefix.Path =
                      IF args.pt.Partitions[idx + 1].Filesystem[1].Mountpoint = MountBoot
                      THEN "/grub2" ELSE "/boot/grub2"
                /\ ret.value.Prefix.Number = idx
                /\ ret.value.Core.Filesystem = args.pt.Partitions[idx + 1].Filesystem[1].Type

\* C8 witness: a table whose second partition is the one mounted at "/boot"
\* got the prefix "/grub2" on partition 1.
C8_Witness ==
    /\ fn = "grub2InstStageOptions"
    /\ ret.kind = "ok"
    /\ Len(args.pt.Partitions) = 2
    /\ args.pt.Partitions[1].Filesystem = None
    /\ args.pt.Partitions[2].Filesystem # None
    /\ args.pt.Partitions[2].Filesystem[1].Mountpoint = MountBoot
    /\ ret.value.Prefix.Path = "/grub2"
    /\ ret.value.Prefix.Number = 1

(***************************************************************************)
(* Claims about bootISOMonoStageOptions and grubISOStageOptions            *)
(***************************************************************************)

\* C9: bootISOMonoStageOptions and grubISOStageOptions map the architecture
\* alike: x86_64 to the EFI architectures IA32, X64, aarch64 to AA64, and
\* any other name to a fatal abort with no record; bootISOMonoStageOptions
\* enables ISOLINUX exactly for x86_64.
C9_SameArchitectureMapping ==
    fn \in {"bootISOMonoStageOptions", "grubISOStageOptions"} =>
        LET architectures == IF fn = "bootISOMonoStageOptions"
                             THEN ret.value.EFI.Architectures
                             ELSE ret.value.Architectures
        IN /\ args.arch = "x86_64" =>
                 ret.kind = "ok" /\ architectures = <<"IA32", "X64">>
           /\ args.arch = "aarch64" =>
                 ret.kind = "ok" /\ architectures = <<"AA64">>
           /\ args.arch \notin {"x86_64", "aarch64"} =>
                 ret.kind = "panic" /\ "value" \notin DOMAIN ret
           /\ (fn = "bootISOMonoStageOptions" /\ ret.kind = "ok") =>
                 ret.value.ISOLinux.Enabled = (args.arch = "x86_64")

\* C9 witness: grubISOStageOptions returned the one EFI architecture of
\* aarch64.
C9_Witness ==
    /\ fn = "grubISOStageOptions"
    /\ args.arch = "aarch64"
    /\ ret.kind = "ok"
    /\ ret.value.Architectures = <<"AA64">>


(***************************************************************************)
(* Claims about dracutStageOptions                                         *)
(***************************************************************************)

\* C11: the modules dracutStageOptions returns are the baseline list, then
\* "biosdevname" exactly when the architecture is x86_64, then the caller's
\* additional modules in the order given, none of them before or among the
\* baseline; the install list is exactly "/.buildstamp".
C11_ModulesBaselineThenAdditional ==
    fn = "dracutStageOptions" =>
        LET modules == ret.value.Modules
            base == Len(DracutBaseModules)
            bios == IF args.arch = "x86_64" THEN 1 ELSE 0
        IN /\ ret.kind = "ok"
           /\ base = 47
           /\ Len(modules) = base + bios + Len(args.additionalModules)
           /\ SubSeq(modules, 1, base) = DracutBaseModules
           /\ modules[1] = "bash" /\ modules[base] = "uefi-lib"
           /\ bios = 1 => modules[base + 1] = "biosdevname"
           /\ SubSeq(modules, base + bios + 1, Len(modules)) = args.additionalModules
           /\ ret.value.Install = <<"/.buildstamp">>

\* C11 witness: an x86_64 call with two additional modules, the first of
\* them a baseline module, returned them last and in order.
C11_Witness ==
    /\ fn = "dracutStageOptions"
    /\ args.arch = "x86_64"
    /\ args.additionalModules = <<"bash", "nvme">>
    /\ ret.kind = "ok"
    /\ Len(ret.value.Modules) = 50
    /\ ret.value.Modules[48] = "biosdevname"
    /\ ret.value.Modules[49] = "bash"
    /\ ret.value.Modules[50] = "nvme"


\* C12: grub2StageOptions given no root partition aborts, whatever its other
\* arguments are, and returns no record.
C12_NilRootPartitionPanics ==
    (fn = "grub2StageOptions" /\ args.rootPartition = None) =>
        /\ ret.kind = "panic"
        /\ "value" \notin DOMAIN ret

\* C12 witness: a call without root partition whose other arguments are all
\* set (boot partition, kernel customization and version, UEFI) aborted.
C12_Witness ==
    /\ fn = "grub2StageOptions"
    /\ args.rootPartition = None
    /\ args.bootPartition = Some([Filesystem |-> Some([UUID |-> BootUUID])])
    /\ args.kernel # None
    /\ args.kernelVer # <<>>
    /\ args.uefi
    /\ ret.kind = "panic"

====
